---- MODULE Spec2Model ----
(***************************************************************************)
(* Buffon's needle Monte Carlo script (src/main.py).                       *)
(*                                                                         *)
(* Python floats are modelled as binary floating-point numbers m * 2^e     *)
(* with a Prec-bit significand, round-to-nearest-even and an unbounded     *)
(* exponent (binary64 has a 53-bit significand; Prec is the model's        *)
(* reduced width).  Every arithmetic operator of the source is translated  *)
(* to the correspondingly rounded operation.  numpy scalars follow IEEE    *)
(* semantics on division by zero (inf / nan), Python floats raise          *)
(* ZeroDivisionError.  The draws of the random module are inputs chosen    *)
(* from finite sets of floats.  x_start / x_end and the plotting calls do  *)
(* not influence any outcome or estimate and are left out.                 *)
(***************************************************************************)
EXTENDS Integers, Sequences, FiniteSets, TLC

\* Width of the significand of the modelled floats (binary64: 53).
Prec == 5

----------------------------------------------------------------------------
\* Floating-point values: [k, m, e] is m * 2^e when k = "num" (m odd, or
\* m = 0 and e = 0), the sign m of an infinity when k = "inf", not-a-number
\* when k = "nan", and a raised ZeroDivisionError when k = "ZeroDivisionError".

RECURSIVE Canon(_, _)
Canon(m, e) ==
    IF m = 0 THEN [k |-> "num", m |-> 0, e |-> 0]
    ELSE IF m % 2 = 0 THEN Canon(m \div 2, e + 1)
    ELSE [k |-> "num", m |-> m, e |-> e]

F(m, e) == Canon(m, e)
Zero == F(0, 0)
One == F(1, 0)
NaN == [k |-> "nan", m |-> 0, e |-> 0]
Inf(s) == [k |-> "inf", m |-> s, e |-> 0]
ZeroDivisionError == [k |-> "ZeroDivisionError", m |-> 0, e |-> 0]

Abs(i) == IF i < 0 THEN -i ELSE i
Sgn(i) == IF i < 0 THEN -1 ELSE IF i > 0 THEN 1 ELSE 0
Min(i, j) == IF i < j THEN i ELSE j

RECURSIVE BitLen(_)
BitLen(i) == IF i = 0 THEN 0 ELSE 1 + BitLen(i \div 2)

\* Position of the leading bit of a non-zero number.
Top(a) == BitLen(Abs(a.m)) + a.e

\* Exact order of two numbers (no rounding).
Lt(a, b) ==
    IF Sgn(a.m) # Sgn(b.m) THEN Sgn(a.m) < Sgn(b.m)
    ELSE IF a.m = 0 THEN FALSE
    ELSE IF Top(a) # Top(b) THEN (IF a.m > 0 THEN Top(a) < Top(b) ELSE Top(a) > Top(b))
    ELSE LET lo == Min(a.e, b.e)
         IN  a.m * 2^(a.e - lo) < b.m * 2^(b.e - lo)
Ge(a, b) == ~Lt(a, b)
Le(a, b) == ~Lt(b, a)
Gt(a, b) == Lt(b, a)

\* s * (n / d) * 2^e rounded to a Prec-bit significand, ties to even:
\* the quotient is brought to Prec + 2 bits, and the two low bits and the
\* remainder decide the rounding.
Round5(s, q4, r, sticky, e) ==
    Canon(s * (IF r = 3 \/ (r = 2 /\ (sticky \/ q4 % 2 = 1)) THEN q4 + 1 ELSE q4), e + 2)
Round4(s, q, sticky, e) == Round5(s, q \div 4, q % 4, sticky, e)
Round3(s, n, d, e) == Round4(s, n \div d, (n % d) # 0, e)
Round2(s, n, d, e) ==
    IF n >= d * 2^(Prec + 2) THEN Round3(s, n, 2 * d, e + 1) ELSE Round3(s, n, d, e)
Round1(s, n, d, e, sh) ==
    IF sh >= 0 THEN Round2(s, n * 2^sh, d, e - sh) ELSE Round2(s, n, d * 2^(-sh), e - sh)
Round(s, n, d, e) ==
    IF n = 0 THEN Zero
    ELSE Round1(s, n, d, e, Prec + 2 - (BitLen(n) - BitLen(d)))

\* A Python int or an exactly written literal as a float.
IntToF(i) == Round(Sgn(i), Abs(i), 1, 0)
Lit(n, d) == Round(1, n, d, 0)

\* a * b
FMul(a, b) ==
    IF a.k = "nan" \/ b.k = "nan" THEN NaN
    ELSE IF a.k = "inf" \/ b.k = "inf"
         THEN (IF a.m = 0 \/ b.m = 0 THEN NaN ELSE Inf(Sgn(a.m) * Sgn(b.m)))
    ELSE Round(Sgn(a.m) * Sgn(b.m), Abs(a.m) * Abs(b.m), 1, a.e + b.e)

\* a + b
FAdd(a, b) ==
    IF a.k = "nan" \/ b.k = "nan" THEN NaN
    ELSE LET lo == Min(a.e, b.e)
             x == a.m * 2^(a.e - lo) + b.m * 2^(b.e - lo)
         IN  Round(Sgn(x), Abs(x), 1, lo)

\* a / b of two finite numbers, b # 0
Quot(a, b) == Round(Sgn(a.m) * Sgn(b.m), Abs(a.m), Abs(b.m), a.e - b.e)

\* a / b where an operand is a numpy float64: IEEE, never raises.
NpDiv(a, b) ==
    IF a.k = "nan" \/ b.k = "nan" THEN NaN
    ELSE IF b.k = "inf" THEN (IF a.k = "inf" THEN NaN ELSE Zero)
    ELSE IF a.k = "inf" THEN Inf(a.m * (IF b.m < 0 THEN -1 ELSE 1))
    ELSE IF b.m = 0 THEN (IF a.m = 0 THEN NaN ELSE Inf(Sgn(a.m)))
    ELSE Quot(a, b)

\* a / b of two Python floats: raises on a zero divisor.
PyDiv(a, b) ==
    IF b.k = "num" /\ b.m = 0 THEN ZeroDivisionError
    ELSE NpDiv(a, b)

\* floor of the exact quotient a / b (b # 0), as an integer.
FloorQuot(a, b) ==
    LET lo == Min(a.e, b.e)
        x == a.m * 2^(a.e - lo)
        y == b.m * 2^(b.e - lo)
    IN  IF y > 0 THEN x \div y ELSE (-x) \div (-y)

\* a // b of two Python floats.
PyFloorDiv(a, b) ==
    IF b.m = 0 THEN ZeroDivisionError
    ELSE IntToF(FloorQuot(a, b))

----------------------------------------------------------------------------
\* Module constants of the script.
SPACE == 1
NED_LEN == F(1, -1)

\* Scaled sizes of the script's runs: the 1000 needles of line 96 (and the
\* range(1, 1000) of line 106), and the sample sizes of
\* v_N = arange(100, 100000, 100) of line 120, which are 1, ..., BoxCount.
NNeedles == 3
BoxCount == 2

\* Largest sample count and longest success vector of a direct call.
MaxN == 2
MaxVec == 3

VARIABLES
    pc,              \* position: which code is executing
    n, needle_len, spacing,            \* arguments of the running call
    success_vector,                    \* buffon_needle_problem's list
    y_start, y_end, nearest_line,      \* locals of the latest trial
    ret,                               \* value a direct call returned
    vec, prob, result,                 \* estimate_pi: argument, local, return
    c, scaled,                         \* scaling factor, result on scaled arguments
    v, i, v_1000_est,                  \* script, lines 96-107
    j, ve, prob1, estimations          \* script, lines 120-125

vars == <<pc, n, needle_len, spacing, success_vector, y_start, y_end,
          nearest_line, ret, vec, prob, result, c, scaled, v, i, v_1000_est,
          j, ve, prob1, estimations>>

buffon_vars == <<n, needle_len, spacing, success_vector, y_start, y_end, nearest_line>>
estimate_vars == <<vec, prob, result>>
script_vars == <<v, i, v_1000_est, j, ve, prob1, estimations>>

----------------------------------------------------------------------------
\* Values the random module can return.

\* random.uniform(-10, 10): floats of [-10, 10].
YStarts ==
    {F(m, 0) : m \in {-10, -1, 0, 1, 2, 10}}
      \cup {F(-1, -1), F(1, -1), F(3, -2), F(11, -1)}

\* math.sin(math.radians(random.uniform(0, 180))): floats of [0, 1].
SinValues == {F(0, 0), F(1, -1), F(1, 0)}

----------------------------------------------------------------------------
\* estimate_pi

RECURSIVE np_sum(_)
np_sum(s) == IF s = <<>> THEN 0 ELSE Head(s) + np_sum(Tail(s))

\* line 42: prob = np.sum(vec) / len(vec)
prob_of(s) == NpDiv(IntToF(np_sum(s)), IntToF(Len(s)))

\* Python truth value of a float: only zero is false (nan is true).
truthy(x) == ~(x.k = "num" /\ x.m = 0)

\* lines 43-44 left out: no floor
prob_unfloored(s) == prob_of(s)

\* lines 43-44: if not prob: prob = 1e-6
prob_used(s) == IF ~truthy(prob_of(s)) THEN Lit(1, 1000000) ELSE prob_of(s)

\* estimate_pi with the floor put on the product spacing * prob
estimate_pi_floor_on_product(s, len, space) ==
    LET num == FMul(IntToF(2), len)
        den == FMul(space, prob_of(s))
    IN  IF truthy(den) THEN NpDiv(num, den) ELSE PyDiv(num, Lit(1, 1000000))

\* lines 45-46.  prob is a numpy float64 unless the literal replaced it, and
\* then the quotient is one of Python floats.
estimate_pi(s, len, space) ==
    LET num == FMul(IntToF(2), len)
        den == FMul(space, prob_used(s))
    IN  IF truthy(prob_of(s)) THEN NpDiv(num, den) ELSE PyDiv(num, den)

----------------------------------------------------------------------------
\* buffon_needle_problem

\* line 70
y_end_of(ys, len, sin) == FAdd(ys, FMul(len, sin))

\* line 72 without the step to the next line: y_start // spacing * spacing
nearest_line_at_or_below(ys, space) == FMul(PyFloorDiv(ys, space), space)

\* line 72
nearest_line_of(ys, space) == FMul(FAdd(PyFloorDiv(ys, space), One), space)

\* lines 75-79
outcome_of(ye, line) == IF Ge(ye, line) THEN 1 ELSE 0

\* success_vector.insert(0, o) in place of append
inserted_first(sv, o) == <<o>> \o sv

\* lines 76, 79: success_vector.append(o)
appended(sv, o) == Append(sv, o)

InBuffon == pc \in {"l96", "l123", "call_buffon"}

\* One iteration of the loop of line 64 with a non-zero spacing.
Trial ==
    /\ InBuffon
    /\ Len(success_vector) < n
    /\ spacing.m # 0
    /\ \E ys \in YStarts, sin \in SinValues :
          LET ye == y_end_of(ys, needle_len, sin)
              line == nearest_line_of(ys, spacing)
          IN  /\ y_start' = ys
              /\ y_end' = ye
              /\ nearest_line' = line
              /\ success_vector' = appended(success_vector, outcome_of(ye, line))
    /\ UNCHANGED <<pc, n, needle_len, spacing, ret>>
    /\ UNCHANGED estimate_vars
    /\ UNCHANGED <<c, scaled>>
    /\ UNCHANGED script_vars

\* Line 72 with spacing zero: y_start // spacing raises.
TrialRaises ==
    /\ pc = "call_buffon"
    /\ Len(success_vector) < n
    /\ spacing.m = 0
    /\ \E ys \in YStarts, sin \in SinValues :
          /\ y_start' = ys
          /\ y_end' = y_end_of(ys, needle_len, sin)
    /\ pc' = "raised"
    /\ UNCHANGED <<n, needle_len, spacing, success_vector, nearest_line, ret>>
    /\ UNCHANGED estimate_vars
    /\ UNCHANGED <<c, scaled>>
    /\ UNCHANGED script_vars

----------------------------------------------------------------------------
\* The script, lines 96-125.

\* v[:i - 1]
Prefix_one_short(s, len) == SubSeq(s, 1, Min(len - 1, Len(s)))

\* v[:i]
Prefix(s, len) == SubSeq(s, 1, Min(len, Len(s)))

\* line 120: v_N = np.arange(100, 100000, 100)
v_N == [x \in 1..BoxCount |-> x]

\* line 84: the returned list outlives the call, its locals do not.
FrameDiscarded ==
    /\ success_vector' = <<>>
    /\ y_start' = Zero /\ y_end' = Zero /\ nearest_line' = Zero

\* line 96 returns: v = buffon_needle_problem(1000, NED_LEN, SPACE, ...)
Return96 ==
    /\ pc = "l96"
    /\ Len(success_vector) >= n
    /\ v' = success_vector
    /\ i' = 1
    /\ pc' = "l106"
    /\ FrameDiscarded
    /\ UNCHANGED <<n, needle_len, spacing, ret>>
    /\ UNCHANGED estimate_vars
    /\ UNCHANGED <<c, scaled>>
    /\ UNCHANGED <<v_1000_est, j, ve, prob1, estimations>>

\* lines 106-107: for i in range(1, 1000): append estimate_pi(v[:i], ...)
Cumulative ==
    /\ pc = "l106"
    /\ i < NNeedles
    /\ vec' = Prefix(v, i)
    /\ prob' = prob_used(vec')
    /\ result' = estimate_pi(vec', NED_LEN, IntToF(SPACE))
    /\ v_1000_est' = Append(v_1000_est, result')
    /\ i' = i + 1
    /\ UNCHANGED <<pc, ret, c, scaled, v, j, ve, prob1, estimations>>
    /\ UNCHANGED buffon_vars

CumulativeDone ==
    /\ pc = "l106"
    /\ i >= NNeedles
    /\ pc' = "l122"
    /\ j' = 1
    /\ UNCHANGED <<ret, c, scaled, v, i, v_1000_est, ve, prob1, estimations>>
    /\ UNCHANGED buffon_vars
    /\ UNCHANGED estimate_vars

\* lines 122-123: for i in v_N: ve = buffon_needle_problem(i, NED_LEN, SPACE)
\* (j indexes v_N; the loop variable is the argument n of the call)
BoxCall ==
    /\ pc = "l122"
    /\ j <= BoxCount
    /\ pc' = "l123"
    /\ n' = v_N[j]
    /\ needle_len' = NED_LEN
    /\ spacing' = IntToF(SPACE)
    /\ success_vector' = <<>>
    /\ UNCHANGED <<y_start, y_end, nearest_line, ret, c, scaled>>
    /\ UNCHANGED estimate_vars
    /\ UNCHANGED script_vars

\* line 124
prob1_of(s, size) == NpDiv(IntToF(np_sum(s)), IntToF(size))

\* line 125
box_estimate(p) == NpDiv(FMul(IntToF(2), NED_LEN), FMul(IntToF(SPACE), p))

\* the call of line 123 returns; lines 124-125
Return123 ==
    /\ pc = "l123"
    /\ Len(success_vector) >= n
    /\ ve' = success_vector
    /\ prob1' = prob1_of(ve', n)
    /\ estimations' = Append(estimations, box_estimate(prob1'))
    /\ j' = j + 1
    /\ pc' = "l122"
    /\ FrameDiscarded
    /\ UNCHANGED <<n, needle_len, spacing, ret, c, scaled, v, i, v_1000_est>>
    /\ UNCHANGED estimate_vars

BoxDone ==
    /\ pc = "l122"
    /\ j > BoxCount
    /\ pc' = "done"
    /\ UNCHANGED <<ret, c, scaled>>
    /\ UNCHANGED buffon_vars
    /\ UNCHANGED estimate_vars
    /\ UNCHANGED script_vars

NoCall ==
    /\ ret = <<>>
    /\ vec = <<>> /\ prob = Zero /\ result = Zero
    /\ c = One /\ scaled = Zero

NoScript ==
    /\ v = <<>> /\ i = 0 /\ v_1000_est = <<>>
    /\ j = 0 /\ ve = <<>> /\ prob1 = Zero /\ estimations = <<>>

NoTrial ==
    /\ success_vector = <<>>
    /\ y_start = Zero /\ y_end = Zero /\ nearest_line = Zero

\* The script starts in the call of line 96.
Init ==
    /\ pc = "l96"
    /\ n = NNeedles
    /\ needle_len = NED_LEN
    /\ spacing = IntToF(SPACE)
    /\ NoTrial /\ NoCall /\ NoScript

Next ==
    \/ Trial
    \/ Return96
    \/ Cumulative
    \/ CumulativeDone
    \/ BoxCall
    \/ Return123
    \/ BoxDone

Spec == Init /\ [][Next]_vars

----------------------------------------------------------------------------
\* Direct calls of the two functions with arguments of the caller's choice.

Ns == -1..MaxN
Lens == {F(-1, -1), Zero, F(1, -1), One, Lit(3, 10)}
Spacings == {F(-1, 0), Zero, F(1, -1), One, F(3, -1), Lit(7, 10), Lit(11, 10)}
Factors == {F(1, 1), F(1, -2), F(3, 0), F(5, 0), Lit(1, 10)}

RECURSIVE BitSeqs(_)
BitSeqs(len) ==
    IF len = 0 THEN {<<>>}
    ELSE LET shorter == BitSeqs(len - 1)
         IN  shorter \cup {Append(s, b) : s \in {t \in shorter : Len(t) = len - 1}, b \in {0, 1}}

CallInit ==
    /\ needle_len \in Lens
    /\ spacing \in Spacings
    /\ NoTrial /\ NoScript
    /\ ret = <<>> /\ prob = Zero /\ result = Zero /\ c = One /\ scaled = Zero
    /\ \/ pc = "call_buffon" /\ n \in Ns /\ vec = <<>>
       \/ pc = "call_estimate" /\ n = 0 /\ vec \in BitSeqs(MaxVec)

\* buffon_needle_problem returns success_vector (line 84)
ReturnCall ==
    /\ pc = "call_buffon"
    /\ Len(success_vector) >= n
    /\ ret' = success_vector
    /\ pc' = "returned"
    /\ FrameDiscarded
    /\ UNCHANGED <<n, needle_len, spacing, c, scaled>>
    /\ UNCHANGED estimate_vars
    /\ UNCHANGED script_vars

\* estimate_pi(vec, needle_len, spacing)
Estimate ==
    /\ pc = "call_estimate"
    /\ prob' = prob_used(vec)
    /\ result' = estimate_pi(vec, needle_len, spacing)
    /\ pc' = "estimated"
    /\ UNCHANGED <<vec, ret, c, scaled>>
    /\ UNCHANGED buffon_vars
    /\ UNCHANGED script_vars

\* estimate_pi(vec, c * needle_len, c * spacing) for a positive factor c
EstimateScaled ==
    /\ pc = "estimated"
    /\ \E f \in Factors :
          /\ c' = f
          /\ scaled' = estimate_pi(vec, FMul(f, needle_len), FMul(f, spacing))
    /\ pc' = "compared"
    /\ UNCHANGED <<ret>>
    /\ UNCHANGED buffon_vars
    /\ UNCHANGED estimate_vars
    /\ UNCHANGED script_vars

CallNext ==
    \/ Trial
    \/ TrialRaises
    \/ ReturnCall
    \/ Estimate
    \/ EstimateScaled

CallSpec == CallInit /\ [][CallNext]_vars

----------------------------------------------------------------------------
\* Exact (unrounded) arithmetic used to state the properties.

\* k * a for an integer k, exactly.
ExactTimes(k, a) == Canon(k * a.m, a.e)

\* Whether an exact number fits a Prec-bit significand.
Representable(a) == BitLen(Abs(a.m)) <= Prec

\* The value of an exact number as a float.
Rounded(a) == Round(Sgn(a.m), Abs(a.m), 1, a.e)

\* The integer k with k * space <= y < (k + 1) * space, for space > 0.
GridIndex(y, space) ==
    CHOOSE k \in -(2^Prec)..(2^Prec) :
        Le(ExactTimes(k, space), y) /\ Lt(y, ExactTimes(k + 1, space))

Ones(s) == Cardinality({x \in 1..Len(s) : s[x] = 1})
IsBits(s) == \A x \in 1..Len(s) : s[x] \in {0, 1}
Positive(a) == a.k = "num" /\ a.m > 0
Last(s) == s[Len(s)]

\* |a - b| <= 2^(3 - Prec) * |b| for numbers of the same sign.
Close(a, b) ==
    LET lo == Min(a.e, b.e)
        x == a.m * 2^(a.e - lo)
        y == b.m * 2^(b.e - lo)
    IN  Abs(x - y) * 2^(Prec - 3) <= Abs(y)

----------------------------------------------------------------------------
\* C1

\* A trial of a direct call with positive spacing and length has run; y_start, y_end
\* and nearest_line are those of the latest trial.
C1_Trialed ==
    /\ pc = "call_buffon"
    /\ Len(success_vector) > 0
    /\ spacing.m > 0
    /\ needle_len.m > 0

\* C1 as stated: the line compared against is the smallest grid line k*S
\* strictly greater than y_start, the outcome is 1 iff y_end >= that line.
C1_Original ==
    C1_Trialed =>
        /\ nearest_line = ExactTimes(GridIndex(y_start, spacing) + 1, spacing)
        /\ Gt(nearest_line, y_start)
        /\ (Last(success_vector) = 1 <=> Ge(y_end, nearest_line))

\* C1 amended: the line compared against is the grid line (floor(y_start/S)
\* + 1) * S rounded to the nearest float; the outcome is 1 iff y_end >= that
\* value; the value is never below y_start, and it is the exact grid line,
\* strictly above y_start, whenever the product is representable, and
\* strictly above y_start whenever y_start is exactly k*S.
C1_NearestLine ==
    C1_Trialed =>
        LET k == GridIndex(y_start, spacing)
            line == ExactTimes(k + 1, spacing)
        IN  /\ nearest_line = Rounded(line)
            /\ Ge(nearest_line, y_start)
            /\ Representable(line) => nearest_line = line /\ Gt(nearest_line, y_start)
            /\ y_start = ExactTimes(k, spacing) => Gt(nearest_line, y_start)
            /\ Last(success_vector) \in {0, 1}
            /\ Last(success_vector) = 1 <=> Ge(y_end, nearest_line)

\* A needle that starts exactly on a grid line other than 0 and reaches the
\* next line above.
C1_Witness ==
    /\ C1_Trialed
    /\ y_start.m # 0
    /\ y_start = ExactTimes(GridIndex(y_start, spacing), spacing)
    /\ y_end = nearest_line
    /\ Last(success_vector) = 1

----------------------------------------------------------------------------
\* C2

\* estimate_pi has returned from a call with a non-empty vector of 0s and 1s
\* and positive needle_len and spacing.
C2_Estimated ==
    /\ pc \in {"estimated", "compared"}
    /\ vec # <<>>
    /\ needle_len.m > 0
    /\ spacing.m > 0

----------------------------------------------------------------------------
\* C3

\* C3 as stated: estimate_pi on an empty vector ends in an error and returns
\* neither a number nor a not-a-number value.
C3_EmptyFails ==
    (pc \in {"estimated", "compared"} /\ vec = <<>>) => result.k = "ZeroDivisionError"

----------------------------------------------------------------------------
\* C5

\* A direct call of buffon_needle_problem with n >= 0 and positive
\* needle_len and spacing.
C5_Valid == n >= 0 /\ needle_len.m > 0 /\ spacing.m > 0

\* What a step of such a call does: one more trial, whose outcome (0 or 1)
\* goes to the end of the list, which stays within n elements; or the return
\* of the list, of exactly n elements.
C5_Step ==
    (pc = "call_buffon" /\ C5_Valid) =>
        \/ /\ pc' = "call_buffon"
           /\ Len(success_vector') = Len(success_vector) + 1
           /\ Len(success_vector') <= n
           /\ SubSeq(success_vector', 1, Len(success_vector)) = success_vector
           /\ Last(success_vector') \in {0, 1}
           /\ Last(success_vector') = 1 <=> Ge(y_end', nearest_line')
        \/ /\ pc' = "returned"
           /\ ret' = success_vector
           /\ Len(ret') = n
           /\ IsBits(ret')

\* C5: for n >= 0 and positive needle_len and spacing every step of the
\* call is one of the at most n trials, appending its outcome, 0 or 1, in
\* generation order, or the return of exactly n outcomes (none for n = 0).
C5_Returns == [][C5_Step]_vars

\* A call has returned a list in which a 1 precedes a 0.
C5_Witness ==
    /\ pc = "returned"
    /\ C5_Valid
    /\ n = MaxN
    /\ ret[1] = 1
    /\ ret[n] = 0

----------------------------------------------------------------------------
\* C6

InvalidLengths == needle_len.m <= 0 \/ spacing.m <= 0

\* C6 as stated: a call with a negative sample count or a non-positive
\* needle length or spacing runs no trial and returns nothing: it ends in an
\* error.
C6_Rejects ==
    /\ (pc \in {"call_buffon", "returned"} /\ (n < 0 \/ InvalidLengths)) =>
           (pc # "returned" /\ success_vector = <<>>)
    /\ (pc \in {"estimated", "compared"} /\ InvalidLengths) =>
           result.k = "ZeroDivisionError"

----------------------------------------------------------------------------
\* C8

\* Both estimates of a non-empty vector, positive needle_len and spacing and
\* a positive factor c have been computed.
C8_Compared ==
    /\ pc = "compared"
    /\ vec # <<>>
    /\ needle_len.m > 0
    /\ spacing.m > 0

\* C8 as stated: the estimate on (c * needle_len, c * spacing) equals the
\* estimate on (needle_len, spacing).
C8_Original == C8_Compared => scaled = result

\* C8 amended: the two estimates are equal when c is a power of two, and for
\* every other positive c they differ by at most the rounding of the float
\* operations: a relative 2^(3 - Prec).
C8_Scaling ==
    C8_Compared =>
        /\ Positive(result) /\ Positive(scaled)
        /\ c.m = 1 => scaled = result
        /\ Close(scaled, result)

\* An all-zero vector estimated on arguments scaled by a power of two
\* other than 1.
C8_Witness ==
    /\ C8_Compared
    /\ Ones(vec) = 0
    /\ c.m = 1 /\ c.e # 0

----------------------------------------------------------------------------
\* C4

\* C4 as stated: every estimate, that of estimate_pi (prob) and that of the
\* boxplot loop (prob1), divides by a probability p with 0 < p <= 1.
C4_NoZeroProbability ==
    /\ v_1000_est # <<>> => Positive(prob) /\ Le(prob, One)
    /\ estimations # <<>> => Positive(prob1) /\ Le(prob1, One)

----------------------------------------------------------------------------
\* C10

\* The estimate of a vector with ones 1s among len outcomes.
EstimateOf(ones, len) ==
    Quot(FMul(IntToF(2), NED_LEN),
         FMul(IntToF(SPACE),
              IF ones > 0 THEN Quot(IntToF(ones), IntToF(len)) ELSE Lit(1, 1000000)))

\* C10: the cumulative loop calls estimate_pi for i = 1, 2, ..., NNeedles - 1
\* in this order, each time on the non-empty prefix of the first i outcomes
\* of v, and the i-th value of the series is the estimate of those first i
\* outcomes alone.
C10_Cumulative ==
    /\ pc = "l106" =>
          /\ i \in 1..NNeedles
          /\ Len(v) = NNeedles
          /\ Len(v_1000_est) = i - 1
          /\ i > 1 => vec = SubSeq(v, 1, i - 1) /\ Len(vec) = i - 1
    /\ pc \in {"l122", "l123", "done"} => Len(v_1000_est) = NNeedles - 1
    /\ \A x \in 1..Len(v_1000_est) :
          v_1000_est[x] = EstimateOf(Ones(SubSeq(v, 1, x)), x)

\* The loop has ended on a vector whose first outcome is 0 and whose second
\* is 1: the first estimate used the floor, the second did not.
C10_Witness ==
    /\ pc = "l122"
    /\ Len(v_1000_est) = NNeedles - 1
    /\ v[1] = 0
    /\ v[2] = 1
    /\ v_1000_est[1] # v_1000_est[2]

====
